---- MODULE Spec2Model ----
(***************************************************************************)
(* A model of the two validation scripts of urbanism-guide-core:          *)
(*   scripts/check-external-links.py  (check_url, main)                   *)
(*   scripts/validate-timeline.py     (validate_timeline)                 *)
(*                                                                         *)
(* Five specifications share the variables below:                         *)
(*   Spec       main() of the link checker: deduplication, the thread     *)
(*              pool, one check_url call per unique URL, the report       *)
(*   FairSpec   Spec with the fairness a thread pool's scheduler gives    *)
(*   CheckSpec  one direct call check_url(url, retries)                   *)
(*   SoftSpec   the soft-404 test of check_url on a response body         *)
(*   TimeSpec   validate_timeline on a document                           *)
(***************************************************************************)
EXTENDS Integers, Sequences, FiniteSets, TLC

\* ------------------------------------------------------------------ bounds

\* Occurrences of URLs in url_map (so at most MaxOcc unique URLs).
MaxOcc == 2
\* The largest retry budget a direct call of check_url is given.
MaxRetries == 4
\* The number of tokens of a response body.
MaxBody == 3
\* The number of entries of a timeline document.
MaxEntries == 3
\* Timeline years are drawn from 1..MaxYear.
MaxYear == 3

\* ------------------------------------------------------- program constants

MAX_WORKERS == 10
\* check_url(url, retries=2)
DefaultRetries == 2
\* content[:5000]
SoftPrefixLen == 5000

VARIABLES
    mode,          \* which program runs: "main", "check", "soft", "timeline"
    \* --- link checker, main()
    pc,            \* position of main(): start, submit, collect, report, done
    url_map,       \* the occurrences found: url_map[j] is the URL at location j
    unique_urls,   \* the dict unique_urls, as the sequence of its items
    nsubmitted,    \* how many items of unique_urls have been submitted
    queue,         \* the executor's work queue (URLs)
    broken_links,  \* the list broken_links
    checked,       \* the progress counter
    exit_code,     \* -1 while running, then the argument of sys.exit
    report,        \* the URLs printed by the final report, in order
    \* --- one check_url call per URL
    retries,       \* the retry budget of the calls
    cpc,           \* per URL: idle, queued, running, reading (urlopen has returned a
                   \*          response, response.read() has not), finished, consumed
    attempt,       \* per URL: the loop variable of check_url
    sleeps,        \* per URL: the delays passed to time.sleep, in order
    last,          \* per URL: the outcome of the attempt on which the call returned
    result,        \* per URL: the (is_valid, error) returned
    \* --- history, read by the properties only
    nattempts,     \* per URL: attempts made (urlopen calls)
    allRetryable,  \* per URL: every attempt that has ended had a retryable outcome
    sleepsOk,      \* per URL: every time.sleep so far followed a retryable outcome
                   \*          of an attempt numbered below retries
    nsubmit,       \* per URL: times submitted to the executor
    nstart,        \* per URL: times a worker started its check
    nconsumed,     \* per URL: times as_completed yielded its future
    order,         \* the URLs in the order as_completed yielded them
    \* --- soft-404 test
    body,          \* the decoded response body, a sequence of tokens
    soft_result,   \* what check_url returns for a 2xx response with that body
    \* --- timeline validator
    doc,           \* the timeline document
    tl_result      \* what validate_timeline did

vars == <<mode, pc, url_map, unique_urls, nsubmitted, queue, broken_links, checked,
          exit_code, report, retries, cpc, attempt, sleeps, last, result,
          nattempts, allRetryable, sleepsOk, nsubmit, nstart, nconsumed, order,
          body, soft_result, doc, tl_result>>

mainVars == <<pc, url_map, unique_urls, nsubmitted, queue, broken_links, checked,
              exit_code, report, nsubmit, nstart, nconsumed, order>>
callVars == <<retries, cpc, attempt, sleeps, last, result, nattempts, allRetryable,
              sleepsOk>>
softVars == <<body, soft_result>>
timeVars == <<doc, tl_result>>

\* ------------------------------------------------------------ helpers

RECURSIVE Pow2(_)
Pow2(n) == IF n <= 0 THEN 1 ELSE 2 * Pow2(n - 1)

SeqsUpTo(S, n) == UNION {[1..k -> S] : k \in 0..n}

Range(s) == {s[i] : i \in 1..Len(s)}


\* ------------------------------------------------ check_url: the soft-404 test

\* The tokens a response body is made of.  A tag or a phrase stands for its own
\* text, "x" for one character of other text, Pad for a run of PadLen characters
\* of other text (so that a body can pass the 5000th character).
Pad == "<pad>"
PadLen == SoftPrefixLen - 20
TokLen(t) == IF t = Pad THEN PadLen ELSE Len(t)

soft_404_patterns ==
    << "Page Not Found",
       "page not found",
       "404 - Not Found",
       "Sorry, we couldn't find",
       "This page doesn't exist",
       "Nothing was found",
       "Oops! That page can't be found" >>

\* The number of characters before token i of content.
RECURSIVE Offset(_, _)
Offset(content, i) ==
    IF i <= 1 THEN 0 ELSE Offset(content, i - 1) + TokLen(content[i - 1])

\* needle in content, for a needle that is one token
In(tok, content) == \E i \in 1..Len(content) : content[i] = tok

\* f'{tag}{pattern}' in content
InAfter(tag, pattern, content) ==
    \E i \in 1..(Len(content) - 1) : content[i] = tag /\ content[i + 1] = pattern

\* pattern in content[:5000]
InPrefix(pattern, content) ==
    \E i \in 1..Len(content) :
        /\ content[i] = pattern
        /\ Offset(content, i) + TokLen(pattern) <= SoftPrefixLen

\* Faulty variant of IsSoft404: the condition grouped as (A or B or C) and D.
IsSoft404Grouped(pattern, content) ==
    /\ In(pattern, content)
    /\ (\/ InAfter("<title>", pattern, content)
        \/ InAfter("<h1>", pattern, content)
        \/ In("<h1 class", content))
    /\ InPrefix(pattern, content)

\* The two nested ifs of the pattern loop: `A or B or C and D` is A or B or (C and D).
IsSoft404(pattern, content) ==
    /\ In(pattern, content)
    /\ \/ InAfter("<title>", pattern, content)
       \/ InAfter("<h1>", pattern, content)
       \/ (In("<h1 class", content) /\ InPrefix(pattern, content))

Valid == [valid |-> TRUE, reason |-> "", code |-> 0, n |-> 0, pattern |-> ""]
Invalid(reason, code, n, pattern) ==
    [valid |-> FALSE, reason |-> reason, code |-> code, n |-> n, pattern |-> pattern]

\* for pattern in soft_404_patterns: ... return False, "Soft 404 ..."; return True, ""
RECURSIVE ScanPatterns(_, _)
ScanPatterns(content, k) ==
    IF k > Len(soft_404_patterns) THEN Valid
    ELSE IF IsSoft404(soft_404_patterns[k], content)
         THEN Invalid("Soft 404 detected (page contains '{pattern}')", 0, 0,
                      soft_404_patterns[k])
         ELSE ScanPatterns(content, k + 1)

SoftCheck(content) == ScanPatterns(content, 1)

\* ------------------------------------------------ check_url: the retry loop

\* Faulty variant of RetryCodes: 500 retried as well.
RetryCodesWith500 == {406, 429, 500, 503}
\* e.code in (406, 429, 503)
RetryCodes == {406, 429, 503}

\* Faulty variant of Backoff: 2 * attempt.
BackoffLinear(att) == 2 * att
\* time.sleep(2 ** attempt)
Backoff(att) == Pow2(att)

\* if attempt < retries
ShouldRetry(att, r) == att < r

Return(res) == [retry |-> FALSE, result |-> res]
Retry == [retry |-> TRUE, result |-> Valid]

\* What one iteration of the loop does with the outcome o of its urlopen call:
\* return a result, or sleep and continue.
Classify(o, att, r) ==
    CASE o.kind = "ok" -> Return(SoftCheck(o.body))
      [] o.kind = "http_error" ->
            IF o.code = 404 THEN Return(Invalid("HTTP 404 Not Found", 404, 0, ""))
            ELSE IF o.code = 403 THEN Return(Valid)
            ELSE IF o.code \in RetryCodes
                 THEN IF ShouldRetry(att, r) THEN Retry
                      ELSE Return(Invalid("HTTP {code} (after {n} attempts)",
                                          o.code, r + 1, ""))
            ELSE Return(Invalid("HTTP {code}", o.code, 0, ""))
      [] o.kind = "url_error" ->
            IF ShouldRetry(att, r) THEN Retry
            ELSE Return(Invalid("Connection error: {reason}", 0, 0, ""))
      [] OTHER -> Return(Invalid("Error: {e}", 0, 0, ""))

\* The outcomes of one attempt (urlopen and response.read()).
ErrorCodes == {403, 404, 406, 429, 500, 503}
SampleBodies == { <<"<title>", "Page Not Found", "</title>">>,
                  <<"x", Pad, Pad, "page not found">> }
NoOutcome == [kind |-> "none", code |-> 0, body |-> <<>>]
Outcomes ==
    [kind : {"ok"}, code : {200}, body : SampleBodies]
    \cup [kind : {"http_error"}, code : ErrorCodes, body : {<<>>}]
    \cup [kind : {"url_error", "exception"}, code : {0}, body : {<<>>}]

\* The outcomes with which urlopen raises: HTTPError, URLError, anything else.
UrlopenRaises == {o \in Outcomes : o.kind # "ok"}
\* The outcomes with which response.read().decode() ends once urlopen has
\* returned a response: the text of the body, or an exception (a socket
\* operation timed out, the connection broke), which is no URLError here.
ReadEnds == {o \in Outcomes : o.kind \in {"ok", "exception"}}

\* A retryable outcome: HTTP 406, 429 or 503, or a URLError (history only).
IsRetryable(o) ==
    \/ o.kind = "http_error" /\ o.code \in {406, 429, 503}
    \/ o.kind = "url_error"

Urls == 1..MaxOcc

\* One iteration of `for attempt in range(retries + 1)` of the call for URL u
\* in which urlopen raises, or the fall-through `return False, "Max retries
\* exceeded"` when the range is exhausted.
Attempt(u) ==
    /\ cpc[u] = "running"
    /\ IF attempt[u] > retries
       THEN /\ cpc' = [cpc EXCEPT ![u] = "finished"]
            /\ result' = [result EXCEPT ![u] = Invalid("Max retries exceeded", 0, 0, "")]
            /\ UNCHANGED <<attempt, sleeps, last, nattempts, allRetryable, sleepsOk>>
       ELSE \E o \in UrlopenRaises :
              LET d == Classify(o, attempt[u], retries) IN
              /\ nattempts' = [nattempts EXCEPT ![u] = @ + 1]
              /\ allRetryable' = [allRetryable EXCEPT ![u] = @ /\ IsRetryable(o)]
              /\ IF d.retry
                 THEN /\ sleeps' = [sleeps EXCEPT ![u] = Append(@, Backoff(attempt[u]))]
                      /\ sleepsOk' = [sleepsOk EXCEPT ![u] =
                                         @ /\ IsRetryable(o) /\ attempt[u] < retries]
                      /\ attempt' = [attempt EXCEPT ![u] = @ + 1]
                      /\ UNCHANGED <<cpc, result, last>>
                 ELSE /\ cpc' = [cpc EXCEPT ![u] = "finished"]
                      /\ result' = [result EXCEPT ![u] = d.result]
                      /\ last' = [last EXCEPT ![u] = o]
                      /\ UNCHANGED <<attempt, sleeps, sleepsOk>>
    /\ UNCHANGED <<mode, retries, mainVars, softVars, timeVars>>

\* An iteration in which urlopen(req, timeout=30) returns a response: the call
\* goes on to response.read().
BeginRead(u) ==
    /\ cpc[u] = "running"
    /\ attempt[u] <= retries
    /\ cpc' = [cpc EXCEPT ![u] = "reading"]
    /\ nattempts' = [nattempts EXCEPT ![u] = @ + 1]
    /\ UNCHANGED <<mode, retries, attempt, sleeps, last, result, allRetryable, sleepsOk,
                   mainVars, softVars, timeVars>>

\* response.read().decode() ends, and the iteration returns: the soft-404 test
\* of the text, or `except Exception`.  The timeout of urlopen bounds each
\* operation on the socket, not the read as a whole, so it is the peer that
\* makes this step happen: by closing the response, or by leaving the
\* connection silent for the length of the timeout.  The same holds of the end
\* of urlopen in Attempt and BeginRead.
EndRead(u) ==
    /\ cpc[u] = "reading"
    /\ \E o \in ReadEnds :
         /\ result' = [result EXCEPT ![u] = Classify(o, attempt[u], retries).result]
         /\ last' = [last EXCEPT ![u] = o]
         /\ allRetryable' = [allRetryable EXCEPT ![u] = @ /\ IsRetryable(o)]
    /\ cpc' = [cpc EXCEPT ![u] = "finished"]
    /\ UNCHANGED <<mode, retries, attempt, sleeps, nattempts, sleepsOk,
                   mainVars, softVars, timeVars>>


\* ------------------------------------------------ main(): deduplication

\* unique_urls[url].append(location), creating the entry on first sight
AddLocation(uu, url, loc) ==
    IF \E k \in 1..Len(uu) : uu[k].url = url
    THEN [k \in 1..Len(uu) |->
            IF uu[k].url = url
            THEN [uu[k] EXCEPT !.locations = Append(@, loc)]
            ELSE uu[k]]
    ELSE Append(uu, [url |-> url, locations |-> <<loc>>])

RECURSIVE DedupFrom(_, _, _)
DedupFrom(m, j, uu) ==
    IF j > Len(m) THEN uu ELSE DedupFrom(m, j + 1, AddLocation(uu, m[j], j))

\* Faulty variant of Deduplicate: one entry per occurrence.
NoDedup(m) == [j \in 1..Len(m) |-> [url |-> m[j], locations |-> <<j>>]]
\* The loop that fills unique_urls from url_map, in first-occurrence order.
Deduplicate(m) == DedupFrom(m, 1, <<>>)

UniqueSet == {unique_urls[k].url : k \in 1..Len(unique_urls)}
LocationsOf(u) == (CHOOSE k \in 1..Len(unique_urls) : unique_urls[k].url = u)

\* Faulty variant of AppendBroken: insert(0, ...).
PrependBroken(bl, entry) == <<entry>> \o bl
\* broken_links.append((url, error, locations))
AppendBroken(bl, entry) == Append(bl, entry)

\* Faulty variant of ExitCode: exit 0 whatever was found.
ExitCodeAlwaysZero(bl) == 0
\* if broken_links: ... sys.exit(1) else: ... sys.exit(0)
ExitCode(bl) == IF bl # <<>> THEN 1 ELSE 0

\* ------------------------------------------------ main(): the actions

\* if not url_map: print(...); sys.exit(0)
ExitNoUrls ==
    /\ mode = "main" /\ pc = "start"
    /\ url_map = <<>>
    /\ exit_code' = 0
    /\ pc' = "done"
    /\ UNCHANGED <<mode, url_map, unique_urls, nsubmitted, queue, broken_links, checked,
                   report, nsubmit, nstart, nconsumed, order, callVars, softVars,
                   timeVars>>

\* the deduplication loop; broken_links = []; checked = 0
Dedup ==
    /\ mode = "main" /\ pc = "start"
    /\ url_map # <<>>
    /\ unique_urls' = Deduplicate(url_map)
    /\ pc' = "submit"
    /\ UNCHANGED <<mode, url_map, nsubmitted, queue, broken_links, checked, exit_code,
                   report, nsubmit, nstart, nconsumed, order, callVars, softVars,
                   timeVars>>

\* executor.submit(check_url, url) for the next item of unique_urls; after the
\* last one the dict comprehension is complete and as_completed starts.
Submit ==
    /\ mode = "main" /\ pc = "submit"
    /\ nsubmitted < Len(unique_urls)
    /\ LET u == unique_urls[nsubmitted + 1].url IN
         /\ queue' = Append(queue, u)
         /\ cpc' = [cpc EXCEPT ![u] = "queued"]
         /\ nsubmit' = [nsubmit EXCEPT ![u] = @ + 1]
    /\ nsubmitted' = nsubmitted + 1
    /\ pc' = IF nsubmitted + 1 = Len(unique_urls) THEN "collect" ELSE "submit"
    /\ UNCHANGED <<mode, url_map, unique_urls, broken_links, checked, exit_code, report,
                   nstart, nconsumed, order, retries, attempt, sleeps, last, result,
                   nattempts, allRetryable, sleepsOk, softVars, timeVars>>

\* The checks that occupy a worker thread.
Running == {u \in Urls : cpc[u] \in {"running", "reading"}}

\* A worker thread of the pool takes the oldest work item and calls check_url(url).
Start(u) ==
    /\ mode = "main"
    /\ queue # <<>> /\ Head(queue) = u
    /\ Cardinality(Running) < MAX_WORKERS
    /\ queue' = Tail(queue)
    /\ cpc' = [cpc EXCEPT ![u] = "running"]
    /\ nstart' = [nstart EXCEPT ![u] = @ + 1]
    /\ UNCHANGED <<mode, pc, url_map, unique_urls, nsubmitted, broken_links, checked,
                   exit_code, report, nsubmit, nconsumed, order, retries, attempt,
                   sleeps, last, result, nattempts, allRetryable, sleepsOk,
                   softVars, timeVars>>

\* One iteration of `for future in as_completed(future_to_url)`: any finished
\* future not yet yielded may be the next.
Collect(u) ==
    /\ mode = "main" /\ pc = "collect"
    /\ cpc[u] = "finished"
    /\ cpc' = [cpc EXCEPT ![u] = "consumed"]
    /\ checked' = checked + 1
    /\ broken_links' =
         IF ~result[u].valid
         THEN AppendBroken(broken_links,
                           [url |-> u, error |-> result[u],
                            locations |-> unique_urls[LocationsOf(u)].locations])
         ELSE broken_links
    /\ nconsumed' = [nconsumed EXCEPT ![u] = @ + 1]
    /\ order' = Append(order, u)
    /\ UNCHANGED <<mode, pc, url_map, unique_urls, nsubmitted, queue, exit_code, report,
                   nsubmit, nstart, retries, attempt, sleeps, last, result, nattempts,
                   allRetryable, sleepsOk, softVars, timeVars>>

\* as_completed is exhausted, the pool is shut down; the report and sys.exit.
Report ==
    /\ mode = "main" /\ pc = "collect"
    /\ \A u \in UniqueSet : cpc[u] = "consumed"
    /\ report' = [k \in 1..Len(broken_links) |-> broken_links[k].url]
    /\ exit_code' = ExitCode(broken_links)
    /\ pc' = "done"
    /\ UNCHANGED <<mode, url_map, unique_urls, nsubmitted, queue, broken_links, checked,
                   nsubmit, nstart, nconsumed, order, callVars, softVars, timeVars>>

\* ------------------------------------------------ specifications: link checker

IdleCalls ==
    /\ cpc = [u \in Urls |-> "idle"]
    /\ attempt = [u \in Urls |-> 0]
    /\ sleeps = [u \in Urls |-> <<>>]
    /\ last = [u \in Urls |-> NoOutcome]
    /\ result = [u \in Urls |-> Valid]
    /\ nattempts = [u \in Urls |-> 0]
    /\ allRetryable = [u \in Urls |-> TRUE]
    /\ sleepsOk = [u \in Urls |-> TRUE]

IdleMain ==
    /\ pc = "start"
    /\ unique_urls = <<>>
    /\ nsubmitted = 0
    /\ queue = <<>>
    /\ broken_links = <<>>
    /\ checked = 0
    /\ exit_code = -1
    /\ report = <<>>
    /\ nsubmit = [u \in Urls |-> 0]
    /\ nstart = [u \in Urls |-> 0]
    /\ nconsumed = [u \in Urls |-> 0]
    /\ order = <<>>

IdleSoft == body = <<>> /\ soft_result = Valid
IdleTime ==
    /\ doc = [kind |-> "none", exc |-> "<none>", entries |-> <<>>]
    /\ tl_result = [state |-> "none"]

\* URLs are opaque keys to main(); they are numbered by first occurrence, so
\* URL k is the k-th distinct URL met in url_map.
NumberedByFirstOccurrence(m) ==
    \A j \in 1..Len(m) : m[j] <= 1 + Cardinality({m[i] : i \in 1..(j - 1)})

UrlMaps == {m \in SeqsUpTo(Urls, MaxOcc) : NumberedByFirstOccurrence(m)}

Init ==
    /\ mode = "main"
    /\ url_map \in UrlMaps
    /\ retries = DefaultRetries
    /\ IdleMain /\ IdleCalls /\ IdleSoft /\ IdleTime

Next ==
    \/ ExitNoUrls
    \/ Dedup
    \/ Submit
    \/ \E u \in Urls : Start(u)
    \/ \E u \in Urls : Attempt(u)
    \/ \E u \in Urls : BeginRead(u)
    \/ \E u \in Urls : EndRead(u)
    \/ \E u \in Urls : Collect(u)
    \/ Report

Spec == Init /\ [][Next]_vars

\* The budgets of a direct call: 0..MaxRetries, and -1, for which range(retries + 1)
\* is empty and the function falls through to "Max retries exceeded".
RetryBudgets == {r - 1 : r \in 0..(MaxRetries + 1)}

\* A direct call check_url(url, retries) for the URL 1.
CheckInit ==
    /\ mode = "check"
    /\ url_map = <<1>>
    /\ retries \in RetryBudgets
    /\ IdleMain /\ IdleSoft /\ IdleTime
    /\ cpc = [u \in Urls |-> IF u = 1 THEN "running" ELSE "idle"]
    /\ attempt = [u \in Urls |-> 0]
    /\ sleeps = [u \in Urls |-> <<>>]
    /\ last = [u \in Urls |-> NoOutcome]
    /\ result = [u \in Urls |-> Valid]
    /\ nattempts = [u \in Urls |-> 0]
    /\ allRetryable = [u \in Urls |-> TRUE]
    /\ sleepsOk = [u \in Urls |-> TRUE]

CheckNext ==
    \/ \E u \in Urls : Attempt(u)
    \/ \E u \in Urls : BeginRead(u)
    \/ \E u \in Urls : EndRead(u)

CheckSpec == CheckInit /\ [][CheckNext]_vars


\* ------------------------------------------------ specification: soft-404 test

Phrases == {"Page Not Found", "page not found", "Nothing was found"}
BodyTokens == {"<title>", "</title>", "<h1>", "</h1>", "<h1 class", Pad, "x"} \cup Phrases
Bodies == SeqsUpTo(BodyTokens, MaxBody)
Pending == [valid |-> TRUE, reason |-> "pending", code |-> 0, n |-> 0, pattern |-> ""]

SoftInit ==
    /\ mode = "soft"
    /\ body \in Bodies
    /\ soft_result = Pending
    /\ url_map = <<>> /\ retries = DefaultRetries
    /\ IdleMain /\ IdleCalls /\ IdleTime

\* check_url's handling of a 2xx response whose decoded text is body
SoftStep ==
    /\ mode = "soft"
    /\ soft_result = Pending
    /\ soft_result' = SoftCheck(body)
    /\ UNCHANGED <<mode, body, mainVars, callVars, timeVars>>

SoftSpec == SoftInit /\ [][SoftStep]_vars


\* ------------------------------------------------ validate_timeline

\* What yaml.safe_load gives for an entry of the sequence.  kind is "map" for a
\* mapping, or the type of a scalar entry: "int", "null", "str" (a string that
\* does not contain the text year) and "str_year" (a string that does).  For a
\* mapping, ytype is the type of its year value ("absent" when it has no year
\* key), year the value as Python compares it (True is 1, False is 0), title the
\* title or NoTitle.
NoTitle == "<no title>"
Titles == {NoTitle, "A", "B"}
Years == 1..MaxYear
Entry(kind, ytype, year, title) ==
    [kind |-> kind, ytype |-> ytype, year |-> year, title |-> title]
EntryValues ==
    {Entry("map", "int", y, t) : y \in Years, t \in Titles}
    \cup {Entry("map", "bool", y, NoTitle) : y \in {0, 1}}
    \cup {Entry("map", yt, 0, NoTitle) : yt \in {"str", "float", "null", "absent"}}
    \cup {Entry(k, "absent", 0, NoTitle) : k \in {"int", "null", "str", "str_year"}}

\* The exceptions open(timeline_path) raises: the path does not exist, names a
\* directory, lies under a regular file, names a file the process may not
\* read, is too long or loops through links (OSError), holds a NUL (ValueError).
OpenRaises == {"FileNotFoundError", "IsADirectoryError", "NotADirectoryError",
               "PermissionError", "OSError", "ValueError"}
\* The exceptions yaml.safe_load(f) raises: the text is not YAML (YAMLError, or
\* a subclass such as ScannerError), the bytes are not text in the encoding
\* open() chose (UnicodeDecodeError), a value cannot be constructed (ValueError
\* for `date: 2001-14-01` or `!!int abc`), the nesting is too deep
\* (RecursionError).
SafeLoadRaises == {"YAMLError", "ScannerError", "UnicodeDecodeError", "ValueError",
                   "RecursionError"}
\* isinstance(e, yaml.YAMLError)
YAMLErrors == {"YAMLError", "ScannerError"}
NoExc == "<none>"

\* The document: opening or loading it raises exc ("raises"), or it loads as
\* None ("null"), as an empty or a non-empty mapping, as a non-empty string, or
\* as a list.
DocKinds == {"null", "empty_map", "map", "str"}
Docs == [kind : {"raises"}, exc : OpenRaises \cup SafeLoadRaises, entries : {<<>>}]
        \cup [kind : DocKinds, exc : {NoExc}, entries : {<<>>}]
        \cup [kind : {"list"}, exc : {NoExc},
              entries : SeqsUpTo(EntryValues, MaxEntries)]

Err(kind, index, ytype, t1, y1, t2, y2) ==
    [kind |-> kind, index |-> index, ytype |-> ytype,
     title |-> t1, year |-> y1, next_title |-> t2, next_year |-> y2]
SimpleErr(kind) == Err(kind, 0, "", "", 0, "", 0)

Returned(is_valid, errors) ==
    [state |-> "returned", valid |-> is_valid, errors |-> errors, exc |-> ""]
Raised(exc) == [state |-> "raised", valid |-> FALSE, errors |-> <<>>, exc |-> exc]

\* isinstance(entry['year'], int): bool is a subclass of int
IsInstanceInt(ytype) == ytype \in {"int", "bool"}

\* The loop `for i, entry in enumerate(entries)` from entry i on, with the errors
\* collected so far: the errors, or the exception an entry raises.
RECURSIVE StructuralScan(_, _, _)
StructuralScan(entries, i, errors) ==
    IF i > Len(entries) THEN Returned(errors = <<>>, errors)
    ELSE LET e == entries[i] IN
         CASE e.kind \in {"int", "null"} ->
                \* 'year' not in entry: argument of type ... is not iterable
                Raised("TypeError")
           [] e.kind = "str_year" ->
                \* entry['year']: string indices must be integers
                Raised("TypeError")
           [] e.kind = "str" ->
                StructuralScan(entries, i + 1,
                    Append(errors, Err("missing_year", i, "", "", 0, "", 0)))
           [] OTHER ->
                IF e.ytype = "absent"
                THEN StructuralScan(entries, i + 1,
                        Append(errors, Err("missing_year", i, "", "", 0, "", 0)))
                ELSE IF ~IsInstanceInt(e.ytype)
                THEN StructuralScan(entries, i + 1,
                        Append(errors, Err("year_type", i, e.ytype, "", 0, "", 0)))
                ELSE StructuralScan(entries, i + 1, errors)

\* entries[i].get('title', 'Unknown')
TitleOf(e) == IF e.title = NoTitle THEN "Unknown" ELSE e.title

\* Faulty variant of OrderViolation: years[i] <= years[i + 1].
OrderViolationOrEqual(y, next) == y <= next
\* if years[i] < years[i + 1]
OrderViolation(y, next) == y < next

\* The loop `for i in range(len(years) - 1)` from index i on.
RECURSIVE OrderScan(_, _, _)
OrderScan(entries, i, errors) ==
    IF i > Len(entries) - 1 THEN errors
    ELSE IF OrderViolation(entries[i].year, entries[i + 1].year)
         THEN OrderScan(entries, i + 1,
                Append(errors, Err("order", i, "", TitleOf(entries[i]), entries[i].year,
                                   TitleOf(entries[i + 1]), entries[i + 1].year)))
         ELSE OrderScan(entries, i + 1, errors)

\* except FileNotFoundError ... except yaml.YAMLError as e ...: any other
\* exception leaves validate_timeline.
Except(exc) ==
    IF exc = "FileNotFoundError" THEN Returned(FALSE, <<SimpleErr("not_found")>>)
    ELSE IF exc \in YAMLErrors THEN Returned(FALSE, <<SimpleErr("bad_yaml")>>)
    ELSE Raised(exc)

validate_timeline(d) ==
    CASE d.kind = "raises" -> Except(d.exc)
      [] d.kind \in {"null", "empty_map"} \/ (d.kind = "list" /\ d.entries = <<>>) ->
            \* if not entries
            Returned(FALSE, <<SimpleErr("empty")>>)
      [] d.kind # "list" -> Returned(FALSE, <<SimpleErr("not_list")>>)
      [] OTHER ->
            LET s == StructuralScan(d.entries, 1, <<>>) IN
            IF s.state = "raised" \/ s.errors # <<>>
            THEN [s EXCEPT !.valid = FALSE]
            ELSE LET errors == OrderScan(d.entries, 1, <<>>) IN
                 Returned(errors = <<>>, errors)

TimeInit ==
    /\ mode = "timeline"
    /\ doc \in Docs
    /\ tl_result = [state |-> "none"]
    /\ url_map = <<>> /\ retries = DefaultRetries
    /\ IdleMain /\ IdleCalls /\ IdleSoft

\* is_valid, errors = validate_timeline(path)
Validate ==
    /\ mode = "timeline"
    /\ tl_result.state = "none"
    /\ tl_result' = validate_timeline(doc)
    /\ UNCHANGED <<mode, doc, mainVars, callVars, softVars>>

TimeSpec == TimeInit /\ [][Validate]_vars


\* ------------------------------------------------ specification: fair scheduling

\* The fall-through of check_url when range(retries + 1) is exhausted.
FallThrough(u) == attempt[u] > retries /\ Attempt(u)

\* The main thread of main(), and the steps the pool's thread that checks URL u
\* takes by itself.  The end of urlopen (Attempt with attempt <= retries,
\* BeginRead) and of response.read() (EndRead) are not among them: there the
\* thread waits for its peer.
MainThread == ExitNoUrls \/ Dedup \/ Submit \/ (\E u \in Urls : Collect(u)) \/ Report
Worker(u) == Start(u) \/ FallThrough(u)

\* Runs of main() with the default budget, and direct calls with any budget.
FairInit == Init \/ CheckInit

\* The operating system schedules every thread that can run.  Nothing is
\* assumed of the peers: the timeout of urlopen bounds each operation on the
\* socket, so neither urlopen (interim `100 Continue` responses without end)
\* nor response.read() (a body that keeps arriving) need ever end.
FairSpec ==
    /\ FairInit
    /\ [][Next]_vars
    /\ WF_vars(MainThread)
    /\ \A u \in Urls : WF_vars(Worker(u))

\* ================================================================ properties

Completed(u) == cpc[u] \in {"finished", "consumed"}
Checked == Range(url_map)
InvalidUrl(u) == ~result[u].valid

\* The result the specification gives for a call that returned on outcome o,
\* with budget r.
Decides(o, res, r) ==
    CASE o.kind = "ok" ->
            IF \E i \in 1..(Len(o.body) - 1) :
                 o.body[i] = "<title>" /\ o.body[i + 1] = "Page Not Found"
            THEN ~res.valid /\ res.pattern = "Page Not Found"
            ELSE res.valid
      [] o.kind = "http_error" /\ o.code = 404 ->
            res = Invalid("HTTP 404 Not Found", 404, 0, "")
      [] o.kind = "http_error" /\ o.code = 403 -> res = Valid
      [] o.kind = "http_error" /\ o.code \in {406, 429, 503} ->
            res = Invalid("HTTP {code} (after {n} attempts)", o.code, r + 1, "")
      [] o.kind = "http_error" -> res = Invalid("HTTP {code}", o.code, 0, "")
      [] o.kind = "url_error" -> res = Invalid("Connection error: {reason}", 0, 0, "")
      [] o.kind = "exception" -> res = Invalid("Error: {e}", 0, 0, "")
      [] OTHER -> FALSE

\* C1: when every attempt of check_url(url, retries), retries >= 0, has a
\* retryable outcome (HTTP 406, 429, 503 or a URLError), the call makes exactly
\* retries + 1 attempts, sleeps exactly retries times, for 1, 2, 4, ... seconds
\* in that order, and returns Invalid: "HTTP {code} (after retries+1 attempts)"
\* after a retryable status, "Connection error: ..." after a URLError.
C1_RetryExhaustion ==
    \A u \in Urls :
        (cpc[u] = "finished" /\ retries >= 0 /\ allRetryable[u]) =>
            /\ nattempts[u] = retries + 1
            /\ sleeps[u] = [i \in 1..retries |-> 2 ^ (i - 1)]
            /\ ~result[u].valid
            /\ last[u].kind = "http_error" =>
                 /\ result[u].reason = "HTTP {code} (after {n} attempts)"
                 /\ result[u].code = last[u].code
                 /\ result[u].n = retries + 1
            /\ last[u].kind = "url_error" =>
                 result[u].reason = "Connection error: {reason}"

C1_Witness ==
    /\ mode = "check" /\ retries >= 3
    /\ cpc[1] = "finished" /\ allRetryable[1]
    /\ Len(sleeps[1]) = retries
    /\ last[1].kind = "http_error" /\ last[1].code = 429

\* C2: time.sleep is called only after a retryable outcome of an attempt that
\* leaves budget; a non-retryable outcome ends the call on its attempt, with no
\* further attempt and no delay after it, whatever budget is left: 404 gives
\* Invalid("HTTP 404 Not Found"), 403 Valid, another status Invalid("HTTP
\* {code}"), another exception Invalid("Error: ...").
C2_TerminalOutcomes ==
    \A u \in Urls :
        /\ sleepsOk[u]
        /\ ~allRetryable[u] => Completed(u)
        /\ (Completed(u) /\ nattempts[u] > 0 /\ ~IsRetryable(last[u])) =>
              /\ Len(sleeps[u]) = nattempts[u] - 1
              /\ attempt[u] = nattempts[u] - 1
              /\ last[u].kind # "ok" => Decides(last[u], result[u], retries)

C2_Witness ==
    /\ mode = "check" /\ retries = 3
    /\ cpc[1] = "finished" /\ nattempts[1] = 2
    /\ last[1].kind = "http_error" /\ last[1].code = 404
    /\ sleeps[1] = <<1>>

\* C3: the exit code is 0 when no URL was found, and then no check is launched;
\* otherwise the exit is taken only when every check has completed, and the code
\* is 1 if and only if some unique URL's result is Invalid, 0 if and only if all
\* are Valid.
C3_ExitCode ==
    /\ pc # "done" => exit_code = -1
    /\ (pc = "done" /\ url_map = <<>>) =>
          /\ exit_code = 0
          /\ \A u \in Urls : nsubmit[u] = 0 /\ nstart[u] = 0 /\ nattempts[u] = 0
    /\ (pc = "done" /\ url_map # <<>>) =>
          /\ \A u \in Checked : cpc[u] = "consumed"
          /\ exit_code = 1 <=> \E u \in Checked : InvalidUrl(u)
          /\ exit_code = 0 <=> \A u \in Checked : ~InvalidUrl(u)

C3_Witness ==
    /\ mode = "main" /\ pc = "done"
    /\ exit_code = 1
    /\ \E u, v \in Checked : InvalidUrl(u) /\ ~InvalidUrl(v)

NoDuplicateUrl(bl) ==
    \A i, j \in 1..Len(bl) : bl[i].url = bl[j].url => i = j

\* C4: under every interleaving each unique URL is submitted once, checked once
\* and its result consumed once, also when it occurs at several locations; at
\* most MAX_WORKERS checks run at a time; when the pool has drained, checked is
\* the number of unique URLs and no URL is twice in broken_links.
C4_ExactlyOnce ==
    /\ \A u \in Urls : nsubmit[u] <= 1 /\ nstart[u] <= 1 /\ nconsumed[u] <= 1
    /\ Cardinality(Running) <= MAX_WORKERS
    /\ NoDuplicateUrl(broken_links)
    /\ (mode = "main" /\ pc = "done" /\ url_map # <<>>) =>
          /\ \A u \in Checked : nsubmit[u] = 1 /\ nstart[u] = 1 /\ nconsumed[u] = 1
          /\ \A u \in Urls \ Checked :
                nsubmit[u] = 0 /\ nstart[u] = 0 /\ nconsumed[u] = 0
          /\ checked = Cardinality(Checked)

C4_Witness ==
    /\ mode = "main" /\ pc = "done"
    /\ Len(url_map) = 2 /\ Cardinality(Checked) = 1
    /\ checked = 1
    /\ Len(broken_links) = 1 /\ Len(broken_links[1].locations) = 2

\* The invalid URLs in the order of unique_urls (the order of submission).
InvalidInSubmissionOrder ==
    LET urls == [k \in 1..Len(unique_urls) |-> unique_urls[k].url]
        Broken(u) == InvalidUrl(u)
    IN  SelectSeq(urls, Broken)

\* The invalid URLs in the order as_completed yielded them.
InvalidInCompletionOrder ==
    LET Broken(u) == InvalidUrl(u) IN SelectSeq(order, Broken)

\* C5 as stated: for the same unique URLs and the same results the final report
\* lists the invalid URLs in the same order under every completion order.  The
\* run in which the checks complete in the order of submission reports them in
\* the order of unique_urls, so the statement says that every run does.
C5_DeterministicOrder ==
    (mode = "main" /\ pc = "done") => report = InvalidInSubmissionOrder

\* C5 as amended: the final report lists every invalid unique URL exactly once,
\* in the order in which as_completed yielded the results; the set of URLs
\* reported does not depend on the completion order, their order does.
C5_CompletionOrder ==
    (mode = "main" /\ pc = "done") =>
        /\ report = InvalidInCompletionOrder
        /\ Range(report) = {u \in Checked : InvalidUrl(u)}
        /\ \A i, j \in 1..Len(report) : report[i] = report[j] => i = j

C5_Witness ==
    /\ mode = "main" /\ pc = "done"
    /\ Len(report) = 2
    /\ report # InvalidInSubmissionOrder


\* ------------------------------------------------ properties: timeline

Validated == mode = "timeline" /\ tl_result.state # "none"
AllMappings == \A i \in 1..Len(doc.entries) : doc.entries[i].kind = "map"
StructuralKinds == {"missing_year", "year_type"}

\* errs names the indices of idx, each once, in increasing order.
NamesInOrder(errs, idx) ==
    /\ Len(errs) = Cardinality(idx)
    /\ \A k \in 1..Len(errs) : errs[k].index \in idx
    /\ \A k \in 1..(Len(errs) - 1) : errs[k].index < errs[k + 1].index

\* C6: for a non-empty sequence of entries that all have an integer year,
\* validate_timeline emits one ordering error for each adjacent pair (i, i+1)
\* with year[i] < year[i+1], in index order, naming both titles ("Unknown" when
\* absent) and years, and no other error; so it returns valid if and only if
\* the years never ascend, equal adjacent years being accepted.
C6_OrderErrors ==
    (/\ Validated /\ doc.kind = "list" /\ doc.entries # <<>> /\ AllMappings
     /\ \A i \in 1..Len(doc.entries) : doc.entries[i].ytype = "int") =>
        LET e == doc.entries
            asc == {i \in 1..(Len(e) - 1) : e[i].year < e[i + 1].year}
            errs == tl_result.errors
        IN  /\ tl_result.state = "returned"
            /\ NamesInOrder(errs, asc)
            /\ \A k \in 1..Len(errs) :
                 LET i == errs[k].index IN
                 /\ errs[k].kind = "order"
                 /\ errs[k].year = e[i].year /\ errs[k].next_year = e[i + 1].year
                 /\ errs[k].title = (IF e[i].title = NoTitle THEN "Unknown" ELSE e[i].title)
                 /\ errs[k].next_title =
                      (IF e[i + 1].title = NoTitle THEN "Unknown" ELSE e[i + 1].title)
            /\ tl_result.valid <=> \A i \in 1..(Len(e) - 1) : e[i].year >= e[i + 1].year

C6_Witness ==
    /\ Validated /\ doc.kind = "list" /\ Len(doc.entries) = 3
    /\ \A i \in 1..3 : doc.entries[i].kind = "map" /\ doc.entries[i].ytype = "int"
    /\ doc.entries[1].year = doc.entries[2].year
    /\ doc.entries[2].year < doc.entries[3].year
    /\ doc.entries[2].title = NoTitle /\ doc.entries[3].title = "B"
    /\ Len(tl_result.errors) = 1 /\ ~tl_result.valid

\* C7: for a sequence of entries (mappings), validate_timeline reports exactly
\* one structural error for each entry that has no year or whose year is not an
\* integer (a string, float, boolean or null is not an integer); when there is
\* such an entry it returns invalid with exactly those errors and no ordering
\* error.
C7_StructuralErrors ==
    (Validated /\ doc.kind = "list" /\ doc.entries # <<>> /\ AllMappings) =>
        LET e == doc.entries
            bad == {i \in 1..Len(e) : e[i].ytype # "int"}
            errs == tl_result.errors
            structural == SelectSeq(errs, LAMBDA x : x.kind \in StructuralKinds)
        IN  /\ tl_result.state = "returned"
            /\ NamesInOrder(structural, bad)
            /\ bad # {} => (~tl_result.valid /\ structural = errs)

\* The documents the timeline validator must reject with a list of errors.
Problematic(d) ==
    \/ d.kind # "list"
    \/ d.entries = <<>>
    \/ \E i \in 1..Len(d.entries) :
          \/ d.entries[i].kind # "map"
          \/ d.entries[i].ytype \notin {"int", "bool"}

\* C9: validate_timeline never raises: for a missing file, malformed YAML, an
\* empty or non-sequence document, or a sequence whose entries have any shape
\* (a bare integer, string or null included) it returns (False, a non-empty
\* list of errors), and exactly one error for an empty or non-sequence document.
C9_NeverRaises ==
    Validated =>
        /\ tl_result.state = "returned"
        /\ Problematic(doc) => (~tl_result.valid /\ tl_result.errors # <<>>)
        /\ (doc.kind \in {"null", "empty_map", "map", "str"} \/
            (doc.kind = "list" /\ doc.entries = <<>>)) => Len(tl_result.errors) = 1

\* ------------------------------------------------ properties: soft-404 test

SoftDone == mode = "soft" /\ soft_result # Pending

AfterOpening(tag, p) ==
    \E i \in 1..(Len(body) - 1) : body[i] = tag /\ body[i + 1] = p
HasMarker == \E i \in 1..Len(body) : body[i] = "<h1 class"
WithinPrefix(p) ==
    \E i \in 1..Len(body) :
        /\ body[i] = p
        /\ Offset(body, i) + TokLen(p) <= SoftPrefixLen
\* p lies after an opening tag with no closing tag in between.
InsideTag(open, close, p) ==
    \E i, j \in 1..Len(body) :
        /\ i < j /\ body[i] = open /\ body[j] = p
        /\ \A k \in (i + 1)..(j - 1) : body[k] # close

Min(S) == CHOOSE x \in S : \A y \in S : x <= y
ReportsFirst(qualifying) ==
    IF qualifying = {} THEN soft_result = Valid
    ELSE /\ ~soft_result.valid
         /\ soft_result.reason = "Soft 404 detected (page contains '{pattern}')"
         /\ soft_result.pattern = soft_404_patterns[Min(qualifying)]

\* C8 as stated: a 2xx response is Invalid("Soft 404 detected ...") if and only
\* if a phrase of the list appears inside a <title> tag, inside an <h1> tag, or
\* within the first 5000 characters of a body that also contains `<h1 class`;
\* the pattern reported is the first qualifying one in list order.
C8_InsideTags ==
    SoftDone =>
        ReportsFirst({k \in 1..Len(soft_404_patterns) :
            LET p == soft_404_patterns[k] IN
            \/ InsideTag("<title>", "</title>", p)
            \/ InsideTag("<h1>", "</h1>", p)
            \/ (HasMarker /\ WithinPrefix(p))})

\* C8 as amended: ... if and only if a phrase of the list appears directly after
\* a `<title>` opening tag, directly after a `<h1>` opening tag, or within the
\* first 5000 characters of a body that also contains `<h1 class`; the pattern
\* reported is the first qualifying one in list order.
C8_DirectlyAfterTags ==
    SoftDone =>
        ReportsFirst({k \in 1..Len(soft_404_patterns) :
            LET p == soft_404_patterns[k] IN
            \/ AfterOpening("<title>", p)
            \/ AfterOpening("<h1>", p)
            \/ (HasMarker /\ WithinPrefix(p))})

C8_Witness ==
    /\ SoftDone
    /\ body = <<"<h1 class", "page not found", "Page Not Found">>
    /\ soft_result.pattern = "Page Not Found"

\* ------------------------------------------------ properties: termination

\* A call makes at most retries + 1 attempts and retries sleeps, and a call that
\* has ended has the result its last attempt decides.
BoundedAndDecided ==
    \A u \in Urls :
        /\ retries >= 0 => (nattempts[u] <= retries + 1 /\ Len(sleeps[u]) <= retries)
        /\ (Completed(u) /\ retries >= 0) =>
              (nattempts[u] >= 1 /\ Decides(last[u], result[u], retries))

\* C10: for every retries >= 0 and every sequence of outcomes a call makes at
\* most retries + 1 attempts and retries sleeps, and ends with the Valid or
\* Invalid result its last attempt decides; under fair scheduling every
\* launched check completes, every unique URL is checked and consumed, and
\* main() reaches its report.
C10_Termination ==
    /\ []BoundedAndDecided
    /\ \A u \in Urls : (cpc[u] \in {"queued", "running", "reading"}) ~> Completed(u)
    /\ (mode = "main") ~>
          (pc = "done" /\ \A u \in Checked : cpc[u] = "consumed" /\ nattempts[u] >= 1)
    /\ (mode = "check") ~> (cpc[1] = "finished")

====
